---- MODULE Spec2Model ----
(***************************************************************************)
(* The SPNEGO error taxonomy of spnego/exceptions.py: the ErrorCode enum,  *)
(* the _SpnegoErrorRegistry metaclass (class registration at class         *)
(* definition time, error classification at construction time) and the     *)
(* SpnegoError class with its message property.                            *)
(*                                                                         *)
(* Python's None is the empty tuple and a present value v is <<v>>, so    *)
(* that "x is None" is a comparison of tuples whatever the type of v.      *)
(***************************************************************************)
EXTENDS Integers, Sequences, FiniteSets, TLC

VARIABLES
    registry,     \* _SpnegoErrorRegistry.__registry : ErrorCode -> class name
    gssapi_map,   \* _SpnegoErrorRegistry.__gssapi_map : maj_code -> ErrorCode or None
    sspi_map,     \* _SpnegoErrorRegistry.__sspi_map : winerror -> ErrorCode or None
    loaded,       \* number of class statements of the module executed so far
    last,         \* None, or <<the last SpnegoError(...) call and its outcome>>
    context,      \* the SecurityContext of the negotiation state machine
    last_step     \* None, or <<the last step call on context and its outcome>>

taxonomy == <<registry, gssapi_map, sspi_map, loaded, last>>
negotiation == <<context, last_step>>
vars == <<registry, gssapi_map, sspi_map, loaded, last, context, last_step>>

None == <<>>
Some(v) == <<v>>
Val(o) == o[1]

(***************************************************************************)
(* class ErrorCode(IntEnum)                                                *)
(***************************************************************************)
ErrorCode ==
    [bad_mech |-> 1, bad_name |-> 2, bad_nametype |-> 3, bad_bindings |-> 4,
     bad_status |-> 5, bad_mic |-> 6, no_cred |-> 7, no_context |-> 8,
     invalid_token |-> 9, invalid_credential |-> 10, credentials_expired |-> 11,
     context_expired |-> 12, failure |-> 13, bad_qop |-> 14, unauthorized |-> 15,
     unavailable |-> 16, duplicate_element |-> 17, name_not_mn |-> 18]

ErrorCodes == {ErrorCode[n] : n \in DOMAIN ErrorCode}

(***************************************************************************)
(* The class statements of the module, in source order.  attributes is the *)
(* class body: a name that is not in its domain is not set on the class.   *)
(***************************************************************************)
ErrorClass(name, code, base_message, gssapi_code, sspi_attr, sspi_code) ==
    [name |-> name, bases |-> <<"SpnegoError">>,
     attributes |-> ("ERROR_CODE" :> code) @@ ("_BASE_MESSAGE" :> base_message)
                    @@ ("_GSSAPI_CODE" :> gssapi_code) @@ (sspi_attr :> sspi_code)]

ClassDefs == <<
    [name |-> "SpnegoError", bases |-> <<>>, attributes |-> <<>>],
    ErrorClass("BadMechanismError", ErrorCode.bad_mech,
               "An unsupported mechanism was requested",
               65536, "_SSPI_TOKEN", -2146893051),
    ErrorClass("BadNameError", ErrorCode.bad_name,
               "An invalid name was supplied",
               1310722, "_SSPI_TOKEN", -2146893053),
    ErrorClass("BadBindings", ErrorCode.bad_bindings,
               "Invalid channel bindings",
               262144, "_SSPI_TOKEN", -2146892986),
    ErrorClass("BadMICError", ErrorCode.bad_mic,
               "A token had an invalid Message Integrity Check (MIC)",
               3932166, "_SSPI_TOKEN", -2146893041),
    ErrorClass("NoCredentialError", ErrorCode.no_cred,
               "No credentials were supplied, or the credentials were unavailable or inaccessible",
               458752, "_SSPI_TOKEN", -2146893042),
    ErrorClass("InvalidTokenError", ErrorCode.invalid_token,
               "A token was invalid",
               589824, "_SSPI_TOKEN", -2146893048),
    ErrorClass("ContextExpiredError", ErrorCode.context_expired,
               "Security context has expired",
               786432, "_SSPI_TOKEN", -2146893033),
    ErrorClass("UnsupportedQop", ErrorCode.bad_qop,
               "The quality-of-protection requested could not be provided",
               917504, "_SSPI_TOKEN", -2146893046),
    ErrorClass("OperationNotAvailableError", ErrorCode.unavailable,
               "Operation not supported or available",
               1048576, "_SSPI_CODE", -2146893054) >>

ClassNames == {ClassDefs[i].name : i \in DOMAIN ClassDefs}
ErrorClassNames == ClassNames \ {"SpnegoError"}
ClassOf(name) == CHOOSE c \in {ClassDefs[i] : i \in DOMAIN ClassDefs} : c.name = name

(***************************************************************************)
(* getattr(cls, attr, None): the class's own attribute, else the one it    *)
(* inherits from its base, else None.                                      *)
(***************************************************************************)
RECURSIVE getattr(_, _)
getattr(cls, attr) ==
    LET c == ClassOf(cls) IN
    IF attr \in DOMAIN c.attributes THEN Some(c.attributes[attr])
    ELSE IF c.bases = <<>> THEN None
    ELSE getattr(c.bases[1], attr)

(***************************************************************************)
(* dict.get(key, None) and dict[key] = value                               *)
(***************************************************************************)
DictGet(d, key, default) == IF key \in DOMAIN d THEN d[key] ELSE default
DictSet(d, key, value) ==
    [k \in DOMAIN d \cup {key} |-> IF k = key THEN value ELSE d[k]]

(***************************************************************************)
(* _SpnegoErrorRegistry.__init__                                           *)
(***************************************************************************)
RegisterClass(reg, cls) ==
    LET error_code == getattr(cls, "ERROR_CODE") IN
    IF error_code # None /\ Val(error_code) \notin DOMAIN reg
    THEN DictSet(reg, Val(error_code), cls)
    ELSE reg

\* A class attribute that is no list or tuple is one code: codes = [codes].
MapSystemCodes(mapping, cls, system_attr) ==
    LET error_code == getattr(cls, "ERROR_CODE")
        codes == getattr(cls, system_attr)
    IN  IF codes = None THEN mapping
        ELSE DictSet(mapping, Val(codes), error_code)

DefineClass ==
    /\ loaded < Len(ClassDefs)
    /\ LET cls == ClassDefs[loaded + 1].name IN
        /\ registry' = RegisterClass(registry, cls)
        /\ gssapi_map' = MapSystemCodes(gssapi_map, cls, "_GSSAPI_CODE")
        /\ sspi_map' = MapSystemCodes(sspi_map, cls, "_SSPI_CODE")
    /\ loaded' = loaded + 1
    /\ UNCHANGED <<last, negotiation>>

(***************************************************************************)
(* "%d" % n.  0xFFFFFFFF does not fit the checker's integers, so the       *)
(* number formatted is held as two 16-bit limbs <<high, low>> and turned   *)
(* into decimal digits by long division by ten.                            *)
(***************************************************************************)
Wide(n) == <<n \div 65536, n % 65536>>
DigitChar == <<"0", "1", "2", "3", "4", "5", "6", "7", "8", "9">>

RECURSIVE Digits(_)
Digits(w) ==
    IF w = <<0, 0>> THEN ""
    ELSE LET t == (w[1] % 10) * 65536 + w[2]
         IN  Digits(<<w[1] \div 10, t \div 10>>) \o DigitChar[(t % 10) + 1]

FormatD(w) == IF w = <<0, 0>> THEN "0" ELSE Digits(w)

(***************************************************************************)
(* Python truth values: None and "" are false; an object is true unless    *)
(* its type says otherwise (__bool__ / __len__), which the object carries  *)
(* as its truthy field.  hasattr(obj, name) reads the object's attributes. *)
(***************************************************************************)
\* Mutation: "base_error is None" tested in place of "not base_error".
Truthy_NotNone(base_error) == base_error # None
Truthy(base_error) == base_error # None /\ Val(base_error).truthy
\* Mutation: "context_msg is not None" tested in place of "context_msg".
StrTruthy_NotNone(s) == s # None
StrTruthy(s) == s # None /\ Val(s) # ""
hasattr(obj, name) == name \in DOMAIN obj.attrs

(***************************************************************************)
(* SpnegoError.message                                                     *)
(***************************************************************************)
message(self) ==
    LET error_code == IF self.error_code # None THEN Wide(Val(self.error_code))
                      ELSE <<65535, 65535>>   \* 0xFFFFFFFF
        class_message == getattr(self.cls, "_BASE_MESSAGE")
        base_message == IF Truthy(self.base_error) THEN Val(self.base_error).str
                        ELSE IF class_message # None THEN Val(class_message)
                        ELSE "Unknown error code"
        msg == "SpnegoError (" \o FormatD(error_code) \o "): " \o base_message
    IN  IF StrTruthy(self.context_message)
        THEN msg \o ", Context: " \o Val(self.context_message)
        ELSE msg

(***************************************************************************)
(* SpnegoError.__init__: the instance, with Exception.args = (message,)    *)
(***************************************************************************)
NewInstance(cls, error_code, base_error, context_msg) ==
    LET self == [cls |-> cls, base_error |-> base_error, error_code |-> error_code,
                 context_message |-> context_msg]
    IN  [cls |-> cls, base_error |-> base_error, error_code |-> error_code,
         context_message |-> context_msg, args |-> <<message(self)>>]

(***************************************************************************)
(* _SpnegoErrorRegistry.__call__: the outcome of cls(error_code,           *)
(* base_error, context_msg) against the registry and the two code maps.    *)
(***************************************************************************)
Raised(type, text) == [raised |-> type, text |-> text, value |-> None]
Returned(obj) == [raised |-> "", text |-> "", value |-> Some(obj)]

\* Mutation: an unmapped platform code falls back to ErrorCode.failure.
SystemErrorCode_DefaultFailure(base_error, gmap, smap) ==
    IF hasattr(Val(base_error), "maj_code")
    THEN DictGet(gmap, Val(base_error).attrs["maj_code"], Some(ErrorCode.failure))
    ELSE DictGet(smap, Val(base_error).attrs["winerror"], Some(ErrorCode.failure))

\* The ErrorCode a platform error maps to; reached only with a true
\* base_error that has a maj_code or a winerror.
SystemErrorCode(base_error, gmap, smap) ==
    IF hasattr(Val(base_error), "maj_code")
    THEN DictGet(gmap, Val(base_error).attrs["maj_code"], None)
    ELSE DictGet(smap, Val(base_error).attrs["winerror"], None)

\* Mutation: the registry is not consulted, the called class is instantiated.
LookupClass_NoRegistry(reg, error_code, cls) == cls

LookupClass(reg, error_code, cls) ==
    IF error_code = None THEN cls ELSE DictGet(reg, Val(error_code), cls)

RegistryCall(cls, error_code, base_error, context_msg, reg, gmap, smap) ==
    LET given == IF error_code # None THEN error_code ELSE getattr(cls, "ERROR_CODE")
    IN  IF given = None /\ ~Truthy(base_error)
        THEN Raised("ValueError", cls \o " requires either an error_code or base_error")
        ELSE IF /\ given = None
                /\ ~hasattr(Val(base_error), "maj_code")
                /\ ~hasattr(Val(base_error), "winerror")
        THEN Raised("ValueError", "base_error of type '" \o Val(base_error).type
                    \o "' is not supported, must be a gssapi.exceptions.GSSError or WindowsError")
        ELSE LET code == IF given # None THEN given
                         ELSE SystemErrorCode(base_error, gmap, smap)
                 new_cls == LookupClass(reg, code, cls)
             IN  Returned(NewInstance(new_cls, code, base_error, context_msg))

(***************************************************************************)
(* The arguments constructions are tried with.                             *)
(***************************************************************************)
GSSError(maj_code, truthy) ==
    [type |-> "GSSError", attrs |-> ("maj_code" :> maj_code), truthy |-> truthy,
     str |-> "Major (" \o ToString(maj_code) \o ")"]
WindowsError(winerror) ==
    [type |-> "OSError", attrs |-> ("winerror" :> winerror), truthy |-> TRUE,
     str |-> "[WinError " \o ToString(winerror) \o "]"]
OtherError == [type |-> "KeyError", attrs |-> <<>>, truthy |-> TRUE, str |-> "'key'"]

DeclaredCodes(system_attr) ==
    {Val(getattr(c, system_attr)) : c \in {d \in ClassNames : getattr(d, system_attr) # None}}

\* The GSS major routine error of an ErrorCode: the code in bits 16..23.
RoutineError(code) == code * 65536

MajCodes == DeclaredCodes("_GSSAPI_CODE") \cup {RoutineError(c) : c \in ErrorCodes}
WinErrors == DeclaredCodes("_SSPI_CODE") \cup DeclaredCodes("_SSPI_TOKEN") \cup {-2146893052}

BaseErrors ==
    {None, Some(OtherError), Some(GSSError(RoutineError(ErrorCode.bad_mech), FALSE))}
    \cup {Some(GSSError(m, TRUE)) : m \in MajCodes}
    \cup {Some(WindowsError(w)) : w \in WinErrors}

CallClasses == {"SpnegoError", "BadMechanismError", "OperationNotAvailableError"}
CallErrorCodes == {None, Some(ErrorCode.bad_mech), Some(ErrorCode.failure)}
ContextMsgs == {None, Some(""), Some("step")}

Construct ==
    /\ loaded = Len(ClassDefs)
    /\ \E cls \in CallClasses, error_code \in CallErrorCodes,
          base_error \in BaseErrors, context_msg \in ContextMsgs :
          last' = Some([cls |-> cls, error_code |-> error_code,
                        base_error |-> base_error, context_msg |-> context_msg,
                        outcome |-> RegistryCall(cls, error_code, base_error, context_msg,
                                                 registry, gssapi_map, sspi_map)])
    /\ UNCHANGED <<registry, gssapi_map, sspi_map, loaded, negotiation>>

(***************************************************************************)
(* The negotiation state machine (SecurityContext and its step operation). *)
(* A token carries what the codec decodes from it; leg is what the active  *)
(* mechanism's init_leg / accept_leg answers on this call.                 *)
(***************************************************************************)
MaxLegs == 3

Mechs == {"Kerberos", "NTLM"}
OfferLists == {<<a>> : a \in Mechs} \cup {<<a, b>> : <<a, b>> \in {p \in Mechs \X Mechs : p[1] # p[2]}}
SupportedSets == SUBSET Mechs \ {{}}
States == {"NotStarted", "Negotiating", "MechSelected", "Established", "Failed"}
LegOutcomes == {"continue", "done", "fail"}

NewContext(is_initiator, offer, supported) ==
    [state |-> "NotStarted", is_initiator |-> is_initiator,
     offered |-> IF is_initiator THEN offer ELSE <<>>,
     supported |-> IF is_initiator THEN {offer[i] : i \in DOMAIN offer} ELSE supported,
     selected_mechanism |-> None, mech_done |-> FALSE, mic_verified |-> FALSE,
     keys_derived |-> 0, legs |-> 0]

\* The two SPNEGO token shapes, as decoded (wellformed: the codec accepts it).
NegTokenInit ==
    [type : {"NegTokenInit"}, wellformed : BOOLEAN, mechTypes : OfferLists,
     mic : {"absent", "valid", "invalid"}]
NegTokenResp ==
    [type : {"NegTokenResp"}, wellformed : BOOLEAN,
     negState : {"accept-incomplete", "accept-completed", "reject"},
     supportedMech : Mechs, mic : {"absent", "valid", "invalid"}]
Tokens == NegTokenInit \cup NegTokenResp
Completes(token) == token.type = "NegTokenResp" /\ token.negState = "accept-completed"

\* Mutation: the error is reported but the context keeps its state.
Fail_KeepsState(ctx, error) == [context |-> ctx, error |-> error]

\* Failed is entered with the originating error; nothing else of the context moves.
Fail(ctx, error) == [context |-> [ctx EXCEPT !.state = "Failed"], error |-> error]
Ok(ctx) == [context |-> ctx, error |-> ""]

\* Mutation: the mechListMIC is never asked for.
MicRequired_Never(ctx) == FALSE

\* A mechListMIC is required when the negotiated mechanism is not the
\* initiator's first offered mechanism.
MicRequired(ctx) == Val(ctx.selected_mechanism) # ctx.offered[1]

\* One leg done on a well-formed token with a mechanism selected: the MIC the
\* token carries is verified, then the context is Established once the
\* mechanism is done and any required MIC has verified.
Advance(ctx, token, leg) ==
    LET done == ctx.mech_done \/ leg = "done"
        verified == ctx.mic_verified \/ token.mic = "valid"
        after == [ctx EXCEPT !.mech_done = done, !.mic_verified = verified,
                             !.legs = ctx.legs + 1]
    IN  IF ~ctx.mech_done /\ leg = "fail" THEN Fail(after, "MechError")
        ELSE IF token.mic = "invalid" THEN Fail(after, "MicMismatch")
        ELSE IF done /\ (~MicRequired(ctx) \/ verified)
        THEN Ok([after EXCEPT !.state = "Established", !.keys_derived = ctx.keys_derived + 1])
        ELSE IF done /\ Completes(token)
        THEN Fail(after, "MicMismatch")
        ELSE Ok([after EXCEPT !.state = "MechSelected"])

\* The first mechanism of the offered list that the acceptor supports.
SelectMechanism(offered, supported) ==
    LET common == {i \in DOMAIN offered : offered[i] \in supported}
    IN  IF common = {} THEN None
        ELSE Some(offered[CHOOSE i \in common : \A j \in common : i <= j])

StepNotStartedInitiator ==
    /\ context.state = "NotStarted"
    /\ context.is_initiator
    /\ \E leg \in LegOutcomes :
          LET after == [context EXCEPT !.legs = context.legs + 1,
                                       !.mech_done = (leg = "done")]
              result == IF leg = "fail" THEN Fail(after, "MechError")
                        ELSE Ok([after EXCEPT !.state = "Negotiating"])
          IN  /\ context' = result.context
              /\ last_step' = Some([input |-> None, leg |-> leg, error |-> result.error])
    /\ UNCHANGED taxonomy

StepNotStartedAcceptor ==
    /\ context.state = "NotStarted"
    /\ ~context.is_initiator
    /\ \E token \in NegTokenInit, leg \in LegOutcomes :
          LET selected == SelectMechanism(token.mechTypes, context.supported)
              chosen == [context EXCEPT !.offered = token.mechTypes,
                                        !.selected_mechanism = selected]
              result == IF ~token.wellformed THEN Fail(context, "TokenError")
                        ELSE IF selected = None THEN Fail(chosen, "NoCommonMechanism")
                        ELSE Advance(chosen, token, leg)
          IN  /\ context' = result.context
              /\ last_step' = Some([input |-> Some(token), leg |-> leg, error |-> result.error])
    /\ UNCHANGED taxonomy

StepNegotiating ==
    /\ context.state \in {"Negotiating", "MechSelected"}
    /\ context.legs < MaxLegs
    /\ \E token \in NegTokenResp, leg \in LegOutcomes :
          LET first == context.selected_mechanism = None
              \* The initiator learns the mechanism from the first response; a
              \* mechanism other than its first choice starts that mechanism anew.
              chosen == IF first
                        THEN [context EXCEPT !.selected_mechanism = Some(token.supportedMech),
                                             !.mech_done = context.mech_done
                                                 /\ token.supportedMech = context.offered[1]]
                        ELSE context
              result == IF ~token.wellformed THEN Fail(context, "TokenError")
                        ELSE IF token.negState = "reject" THEN Fail(context, "BadMechanism")
                        ELSE IF first /\ token.supportedMech \notin context.supported
                        THEN Fail(context, "BadMechanism")
                        ELSE Advance(chosen, token, leg)
          IN  /\ context' = result.context
              /\ last_step' = Some([input |-> Some(token), leg |-> leg, error |-> result.error])
    /\ UNCHANGED taxonomy

\* Failed accepts no further step: the call fails and the context stays as it is.
StepFailed ==
    /\ context.state = "Failed"
    /\ \E token \in Tokens :
          LET result == Fail(context, "ContextFailed")
          IN  /\ context' = result.context
              /\ last_step' = Some([input |-> Some(token), leg |-> "", error |-> result.error])
    /\ UNCHANGED taxonomy

TaxonomyInit ==
    /\ registry = <<>>
    /\ gssapi_map = <<>>
    /\ sspi_map = <<>>
    /\ loaded = 0
    /\ last = None

Init ==
    /\ TaxonomyInit
    /\ context = NewContext(TRUE, <<"Kerberos", "NTLM">>, {"Kerberos", "NTLM"})
    /\ last_step = None

Next == DefineClass \/ Construct

Spec == Init /\ [][Next]_vars

NegotiationInit ==
    /\ TaxonomyInit
    /\ \E is_initiator \in BOOLEAN, offer \in OfferLists, supported \in SupportedSets :
          context = NewContext(is_initiator, offer, supported)
    /\ last_step = None

NegotiationNext ==
    \/ StepNotStartedInitiator
    \/ StepNotStartedAcceptor
    \/ StepNegotiating
    \/ StepFailed

NegotiationSpec == NegotiationInit /\ [][NegotiationNext]_vars

(***************************************************************************)
(* What the properties below read: the last call, and the class attributes *)
(***************************************************************************)
Called == last # None
Call == Val(last)
Outcome == Val(last).outcome
Built(outcome) == outcome.raised = "" /\ outcome.value # None
CodeOf(c) == Val(getattr(c, "ERROR_CODE"))
GssapiCodeOf(c) == Val(getattr(c, "_GSSAPI_CODE"))
\* The SSPI status code written on the class, under either attribute name.
ListedSspiCode(c) ==
    IF getattr(c, "_SSPI_CODE") # None THEN Val(getattr(c, "_SSPI_CODE"))
    ELSE Val(getattr(c, "_SSPI_TOKEN"))
\* SpnegoError(base_error=b), with or without a context message.
ClassifiedFrom(b) ==
    /\ Called
    /\ Call.cls = "SpnegoError"
    /\ Call.error_code = None
    /\ Call.base_error = Some(b)
YieldsClass(c) ==
    /\ Built(Outcome)
    /\ Val(Outcome.value).cls = c
    /\ Val(Outcome.value).error_code = Some(CodeOf(c))
    /\ Val(Outcome.value).base_error = Call.base_error

\* C1: SpnegoError(base_error=e), where e.winerror is the SSPI status code
\* listed on one of the nine error classes, is an instance of that class
\* carrying that class's ERROR_CODE.
C1_SspiCodeYieldsItsClass ==
    \A c \in ErrorClassNames :
        ClassifiedFrom(WindowsError(ListedSspiCode(c))) => YieldsClass(c)

\* C2: SpnegoError(base_error=e), where e.maj_code is the _GSSAPI_CODE
\* declared on one of the nine error classes, is an instance of that class
\* (not of SpnegoError itself), carries its ERROR_CODE and keeps e.
C2_GssapiCodeYieldsItsClass ==
    \A c \in ErrorClassNames :
        ClassifiedFrom(GSSError(GssapiCodeOf(c), TRUE)) =>
            YieldsClass(c) /\ Val(Outcome.value).cls # "SpnegoError"

C2_Witness ==
    /\ ClassifiedFrom(GSSError(GssapiCodeOf("BadNameError"), TRUE))
    /\ Built(Outcome)
    /\ Val(Outcome.value).cls = "BadNameError"
    /\ Val(Outcome.value).error_code = Some(ErrorCode.bad_name)

\* C7: on every one of the nine error classes _GSSAPI_CODE is ERROR_CODE
\* shifted left by 16 bits, so that once the module is loaded the GSS routine
\* error of kind k is mapped to kind k.
C7_GssapiCodeIsRoutineError ==
    loaded = Len(ClassDefs) =>
        \A c \in ErrorClassNames :
            /\ GssapiCodeOf(c) = RoutineError(CodeOf(c))
            /\ DictGet(gssapi_map, RoutineError(CodeOf(c)), None) = Some(CodeOf(c))

(***************************************************************************)
(* The message an instance is expected to have, written out with           *)
(* ToString and not with the model's own formatting.                       *)
(***************************************************************************)
BasePresent(b) == b # None /\ Val(b).truthy
ShownBase(obj) ==
    IF BasePresent(obj.base_error) THEN Val(obj.base_error).str
    ELSE IF getattr(obj.cls, "_BASE_MESSAGE") # None
         THEN Val(getattr(obj.cls, "_BASE_MESSAGE"))
    ELSE "Unknown error code"
ShownContext(obj) ==
    IF obj.context_message # None /\ Val(obj.context_message) # ""
    THEN ", Context: " \o Val(obj.context_message)
    ELSE ""
ExpectedMessage(code_text, obj) ==
    "SpnegoError (" \o code_text \o "): " \o ShownBase(obj) \o ShownContext(obj)

\* C3 as stated: every constructed error stores base_error as passed and
\* its message is 'SpnegoError (<code>): <base>[, Context: <context_msg>]'
\* with <code> the error code the error carries.
C3_MessageShowsCarriedCode ==
    (Called /\ Built(Outcome)) =>
        LET obj == Val(Outcome.value) IN
        /\ obj.base_error = Call.base_error
        /\ obj.context_message = Call.context_msg
        /\ obj.args = << ExpectedMessage(IF obj.error_code = None THEN "None"
                                         ELSE ToString(Val(obj.error_code)), obj) >>

\* C3 amended: as C3, with <code> the carried error code when the error
\* carries one and 4294967295 when it carries none; <base> is
\* str(base_error) when base_error is true, else the class's _BASE_MESSAGE,
\* else 'Unknown error code'; the context suffix is there iff a non-empty
\* context_msg was given.
C3_MessageShowsCodeOrUnknown ==
    (Called /\ Built(Outcome)) =>
        LET obj == Val(Outcome.value) IN
        /\ obj.base_error = Call.base_error
        /\ obj.context_message = Call.context_msg
        /\ obj.args = << ExpectedMessage(IF obj.error_code = None THEN "4294967295"
                                         ELSE ToString(Val(obj.error_code)), obj) >>

C3_Witness ==
    /\ ClassifiedFrom(GSSError(RoutineError(ErrorCode.failure), TRUE))
    /\ Call.context_msg = Some("step")
    /\ Built(Outcome)
    /\ Val(Outcome.value).error_code = None
    /\ Val(Outcome.value).args =
           <<"SpnegoError (4294967295): Major (851968), Context: step">>

\* C4: with no error_code given and no ERROR_CODE on the class, a
\* construction whose base_error is None or false, or has neither maj_code
\* nor winerror, raises ValueError, makes no error object and leaves the
\* registry and both code maps as they were.
NoCodeNoUsableBase(c) ==
    /\ c.error_code = None
    /\ getattr(c.cls, "ERROR_CODE") = None
    /\ \/ c.base_error = None
       \/ ~Val(c.base_error).truthy
       \/ /\ "maj_code" \notin DOMAIN Val(c.base_error).attrs
          /\ "winerror" \notin DOMAIN Val(c.base_error).attrs

C4_NeedsCodeOrUsableBaseError ==
    [][(last' # None /\ NoCodeNoUsableBase(Val(last'))) =>
          /\ Val(last').outcome.raised = "ValueError"
          /\ Val(last').outcome.value = None
          /\ registry' = registry
          /\ gssapi_map' = gssapi_map
          /\ sspi_map' = sspi_map]_vars

C4_Witness ==
    /\ Called
    /\ NoCodeNoUsableBase(Call)
    /\ Call.base_error = Some(OtherError)
    /\ Outcome.raised = "ValueError"
    /\ Outcome.value = None

\* C8: SpnegoError(base_error=e), where e.maj_code (or, without a maj_code,
\* e.winerror) is not a key of the platform's code map, is built: an
\* instance of SpnegoError itself with no error code, keeping e, whose
\* message shows the code 4294967295.
UnmappedCode(b) ==
    /\ b # None
    /\ Val(b).truthy
    /\ \/ /\ "maj_code" \in DOMAIN Val(b).attrs
          /\ Val(b).attrs["maj_code"] \notin DOMAIN gssapi_map
       \/ /\ "maj_code" \notin DOMAIN Val(b).attrs
          /\ "winerror" \in DOMAIN Val(b).attrs
          /\ Val(b).attrs["winerror"] \notin DOMAIN sspi_map

C8_UnmappedCodeIsGeneric ==
    (Called /\ Call.cls = "SpnegoError" /\ Call.error_code = None
            /\ UnmappedCode(Call.base_error)) =>
        /\ Built(Outcome)
        /\ Val(Outcome.value).cls = "SpnegoError"
        /\ Val(Outcome.value).error_code = None
        /\ Val(Outcome.value).base_error = Call.base_error
        /\ Val(Outcome.value).args =
               << "SpnegoError (4294967295): " \o Val(Call.base_error).str
                  \o ShownContext(Val(Outcome.value)) >>

C8_Witness ==
    /\ ClassifiedFrom(WindowsError(-2146893052))
    /\ Call.context_msg = None
    /\ Built(Outcome)
    /\ Val(Outcome.value).cls = "SpnegoError"
    /\ Val(Outcome.value).error_code = None
    /\ Val(Outcome.value).args = <<"SpnegoError (4294967295): [WinError -2146893052]">>

(***************************************************************************)
(* The negotiation state machine                                           *)
(***************************************************************************)
Stepped == last_step # None
Step == Val(last_step)

\* C5: a step on a malformed token, and any step that fails (codec,
\* mechanism, negotiation), leaves the context Failed; from Failed every
\* step fails with ContextFailed and the context stays Failed.
C5_FailedIsTerminal ==
    /\ [](Stepped =>
            /\ (Step.input # None /\ ~Val(Step.input).wellformed) => context.state = "Failed"
            /\ Step.error # "" => context.state = "Failed")
    /\ [][context.state = "Failed" =>
            /\ context'.state = "Failed"
            /\ last_step' # None
            /\ Val(last_step').error = "ContextFailed"]_vars

C5_Witness ==
    /\ Stepped
    /\ context.state = "Failed"
    /\ context.legs > 0
    /\ Step.error = "ContextFailed"

\* C6: in Established the active mechanism has signalled done and, when the
\* negotiated mechanism is not the initiator's first offered one, the
\* mechListMIC has verified; a step whose token carries a MIC that does not
\* verify leaves the context Failed.
C6_EstablishedNeedsDoneAndMic ==
    /\ context.state = "Established" =>
          /\ context.mech_done
          /\ context.selected_mechanism # None
          /\ Val(context.selected_mechanism) # context.offered[1] => context.mic_verified
    /\ (Stepped /\ Step.input # None /\ Val(Step.input).mic = "invalid") =>
          context.state = "Failed"

C6_Witness ==
    /\ context.state = "Established"
    /\ Val(context.selected_mechanism) # context.offered[1]
    /\ context.mech_done
    /\ context.mic_verified
    /\ context.keys_derived = 1
====
